---- MODULE Spec2Model ----
(***************************************************************************)
(* Model of plugins/modules/channel_config.py: the six operations of the   *)
(* channel_config module (create, fetch, compute_update, sign_update,      *)
(* sign_update_organizations, apply_update) acting on the file at `path`.  *)
(* One action is one invocation of the module, run to its end.             *)
(***************************************************************************)
EXTENDS Integers, Sequences, FiniteSets, TLC

VARIABLES
    file,   \* the file at module.params['path']: [exists, bytes]
    inv,    \* the last invocation: operation, parameters and what it did
    prev    \* summary of the invocation before the last one

vars == <<file, inv, prev>>

----------------------------------------------------------------------------
(* Bounds of the model.                                                    *)

\* longest ordering_service_nodes list given to create
MaxNodes == 2
\* longest organizations list given to sign_update_organizations
MaxOrgs == 2
\* most signatures an envelope holds before the signer is no longer run
MaxSigs == 2
\* number of distinct configurations the ordering service / diff tool return
MaxContent == 1

----------------------------------------------------------------------------
(* Values.                                                                 *)

MspIds == {"Org1MSP", "Org2MSP"}

\* ordering service nodes known to the console: api_url as urlparse sees it
\* (port 0: the URL names no port)
NodeA == [hostname |-> "o1", port |-> 7050, tls_cert |-> "certA",
          client_tls_cert |-> "", server_tls_cert |-> ""]
NodeB == [hostname |-> "o2", port |-> 7050, tls_cert |-> "certB",
          client_tls_cert |-> "clientB", server_tls_cert |-> "serverB"]
NodeC == [hostname |-> "o3", port |-> 0, tls_cert |-> "certC",
          client_tls_cert |-> "", server_tls_cert |-> ""]
Nodes == {NodeA, NodeB, NodeC}

Range(s) == {s[i] : i \in DOMAIN s}

SeqsUpTo(S, n) == UNION {[1..k -> S] : k \in 0..n}

\* every list that enumerates the set S once (the orders list(S) can have)
Orderings(S) == {s \in [1..Cardinality(S) -> S] : Range(s) = S}

\* a JSON list that is absent from its dict
NoList == [present |-> FALSE, items |-> <<>>]
JsonList(s) == [present |-> TRUE, items |-> s]

----------------------------------------------------------------------------
(* The configuration update built by create.                               *)

\* a key that is not in its dict
Missing == [present |-> FALSE]
\* the empty dict a read_set entry is created as
EmptyNode == [present |-> TRUE, empty |-> TRUE]
\* ValueNode with the version key left out: the version is read as 0
ValueNodeUnversioned(mod_policy, value, version) ==
    [present |-> TRUE, empty |-> FALSE, mod_policy |-> mod_policy,
     value |-> value, version |-> 0]

\* dict(mod_policy=..., value=..., version=...) of the write_set
ValueNode(mod_policy, value, version) ==
    [present |-> TRUE, empty |-> FALSE, mod_policy |-> mod_policy,
     value |-> value, version |-> version]

\* PortOf without the default: the port as urlparse gives it
PortAsParsed(node) == node.port

\* urllib.parse.urlparse(api_url).port or 443
PortOf(node) == IF node.port = 0 THEN 443 ELSE node.port

\* f'{host}:{port}'
AddressOf(node) == <<node.hostname, PortOf(node)>>

\* the consenter appended for one ordering service node
Consenter(node) ==
    [host |-> node.hostname, port |-> PortOf(node),
     client_tls_cert |-> IF node.client_tls_cert # ""
                            THEN node.client_tls_cert ELSE node.tls_cert,
     server_tls_cert |-> IF node.server_tls_cert # ""
                            THEN node.server_tls_cert ELSE node.tls_cert]

\* consenters: one appended per node of the list, in list order
Consenters(nodes) == [i \in DOMAIN nodes |-> Consenter(nodes[i])]

\* OrdererAddressSet left as it was computed for a shorter node list: only
\* the first node's address
AddressOfFirstNode(nodes) ==
    IF nodes = <<>> THEN {} ELSE {AddressOf(nodes[1])}

\* orderer_addresses: the set the loop adds every node's host:port to
OrdererAddressSet(nodes) == {AddressOf(nodes[i]) : i \in DOMAIN nodes}

\* python truthiness of the option values the builder tests
Truthy(str) == str # ""

\* the keys of batch_size that are set (if batch_size[key])
BatchSizeValue(batch_size) ==
    {k \in DOMAIN batch_size.keys : batch_size.keys[k] # 0}

\* OrdererSupplied when the Orderer group is part of the initial tree
OrdererAlways(p) == TRUE

\* whether a setdefault('Orderer', dict()) of the builder is reached
OrdererSupplied(p) ==
    \/ Truthy(p.capabilities.orderer)
    \/ p.parameters.batch_size.present
    \/ Truthy(p.parameters.batch_timeout)
    \/ p.ordering_service_nodes.present

\* a policy given as a path is loaded from its file, a dict is taken as is,
\* anything else is invalid
PolicyRaises(policies) ==
    \E n \in DOMAIN policies : policies[n].kind \in {"badpath", "other"}

ActualPolicies(policies) ==
    [n \in DOMAIN policies |->
        [mod_policy |-> "Admins", policy |-> policies[n].doc]]

\* ReadSet as the initial tree has it, without what the builder adds to it
\* afterwards (organizations, Orderer values, Capabilities, OrdererAddresses)
ReadSetInitial(p) ==
    [groups |-> [Application |-> [groups |-> {}], Orderer |-> Missing],
     values |->
        [Consortium |-> [present |-> TRUE, empty |-> FALSE,
                         value |-> "SampleConsortium"],
         Capabilities |-> Missing,
         OrdererAddresses |-> Missing]]

\* read_set of the config update
ReadSet(p) ==
    [groups |->
        [Application |-> [groups |-> Range(p.organizations)],
         Orderer |->
            IF ~OrdererSupplied(p) THEN Missing
            ELSE [present |-> TRUE,
                  values |->
                    [Capabilities |-> IF Truthy(p.capabilities.orderer)
                                        THEN EmptyNode ELSE Missing,
                     BatchSize |-> IF p.parameters.batch_size.present
                                        THEN EmptyNode ELSE Missing,
                     BatchTimeout |-> IF Truthy(p.parameters.batch_timeout)
                                        THEN EmptyNode ELSE Missing,
                     ConsensusType |-> IF p.ordering_service_nodes.present
                                        THEN EmptyNode ELSE Missing]]],
     values |->
        [Consortium |-> [present |-> TRUE, empty |-> FALSE,
                         value |-> "SampleConsortium"],
         Capabilities |-> IF Truthy(p.capabilities.channel)
                            THEN EmptyNode ELSE Missing,
         OrdererAddresses |-> IF p.ordering_service_nodes.present
                            THEN EmptyNode ELSE Missing]]

\* write_set of the config update; addresses is list(orderer_addresses)
WriteSet(p, addresses) ==
    [groups |->
        [Application |->
            [groups |-> Range(p.organizations),
             mod_policy |-> "Admins",
             policies |-> ActualPolicies(p.policies),
             values |->
                [Capabilities |->
                    \* no version key is set: the encoded version is 0
                    ValueNode("Admins", p.capabilities.application, 0),
                 ACLs |-> IF p.acls # {}
                            THEN ValueNode("Admins", p.acls, 0) ELSE Missing],
             version |-> 1],
         Orderer |->
            IF ~OrdererSupplied(p) THEN Missing
            ELSE [present |-> TRUE,
                  values |->
                    [Capabilities |->
                        IF Truthy(p.capabilities.orderer)
                        THEN ValueNode("Admins", p.capabilities.orderer, 1)
                        ELSE Missing,
                     BatchSize |->
                        IF p.parameters.batch_size.present
                        THEN ValueNode("Admins",
                                BatchSizeValue(p.parameters.batch_size), 1)
                        ELSE Missing,
                     BatchTimeout |->
                        IF Truthy(p.parameters.batch_timeout)
                        THEN ValueNode("Admins",
                                p.parameters.batch_timeout, 1)
                        ELSE Missing,
                     ConsensusType |->
                        IF p.ordering_service_nodes.present
                        THEN ValueNode("Admins",
                                [type |-> "etcdraft",
                                 consenters |->
                                    Consenters(p.ordering_service_nodes.items),
                                 options |->
                                    [tick_interval |-> "500ms",
                                     election_tick |-> 10,
                                     heartbeat_tick |-> 1,
                                     max_inflight_blocks |-> 5,
                                     snapshot_interval_size |-> 20971520]],
                                1)
                        ELSE Missing]]],
     values |->
        [Consortium |-> [present |-> TRUE, empty |-> FALSE,
                         value |-> "SampleConsortium"],
         Capabilities |->
            IF Truthy(p.capabilities.channel)
            THEN ValueNode("Admins", p.capabilities.channel, 1)
            ELSE Missing,
         OrdererAddresses |->
            IF p.ordering_service_nodes.present
            THEN ValueNode("/Channel/Orderer/Admins",
                            [addresses |-> JsonList(addresses)], 1)
            ELSE Missing]]

\* config_update_json
ConfigUpdate(p, addresses) ==
    [channel_id |-> p.name, read_set |-> ReadSet(p),
     write_set |-> WriteSet(p, addresses)]

\* config_update_envelope_json: no 'signatures' key is set
ConfigUpdateEnvelope(name, config_update) ==
    [channel_id |-> name, type |-> 2, config_update |-> config_update,
     signatures |-> NoList]

----------------------------------------------------------------------------
(* The binary/JSON transcoder and the differ (module_utils).               *)

\* whether a config update is one create built (it has an address list)
HasAddresses(u) ==
    /\ "write_set" \in DOMAIN u
    /\ u.write_set.values.OrdererAddresses.present

\* the wire form of a config update: a repeated field has no "absent" form
EncodeUpdate(u) ==
    IF HasAddresses(u)
    THEN [u EXCEPT !.write_set.values.OrdererAddresses.value.addresses =
                        @.items]
    ELSE u

\* the JSON form of a config update: an empty repeated field is omitted
DecodeUpdate(u) ==
    IF HasAddresses(u)
    THEN [u EXCEPT !.write_set.values.OrdererAddresses.value.addresses =
                        [present |-> @ # <<>>, items |-> @]]
    ELSE u

\* json_to_proto(type, json)
json_to_proto(type, json) ==
    IF type = "common.Envelope"
    THEN [type |-> type, channel_id |-> json.channel_id,
          config_update |-> EncodeUpdate(json.config_update),
          signatures |-> json.signatures.items]
    ELSE [type |-> type, channel_id |-> "", config_update |-> json,
          signatures |-> <<>>]

\* whether proto_to_json(type, bytes) returns: it raises on garbage and on a
\* message of another type; an empty file decodes to a message without the
\* keys its readers index, which raises in them
Parses(type, bytes) == bytes.type = type

\* proto_to_json(type, bytes)
proto_to_json(type, bytes) ==
    IF type = "common.Envelope"
    THEN [channel_id |-> bytes.channel_id, type |-> 2,
          config_update |-> DecodeUpdate(bytes.config_update),
          signatures |-> [present |-> bytes.signatures # <<>>,
                          items |-> bytes.signatures]]
    ELSE bytes.config_update

\* diff_dicts(a, b): TRUE when the two differ; structural, absent and empty
\* collections alike, lists compared in order
Canonical(json) ==
    IF "signatures" \in DOMAIN json
    THEN json_to_proto("common.Envelope", json) ELSE json

diff_dicts(a, b) == Canonical(a) # Canonical(b)

\* file contents no transcoder call produced
Garbage == [type |-> "garbage", channel_id |-> "", config_update |-> <<>>,
            signatures |-> <<>>]
\* a file opened with 'wb' and not written to its end
Truncated == [type |-> "truncated", channel_id |-> "",
              config_update |-> <<>>, signatures |-> <<>>]

Absent == [exists |-> FALSE, bytes |-> Truncated]
OnDisk(bytes) == [exists |-> TRUE, bytes |-> bytes]

----------------------------------------------------------------------------
(* Results and the shared compare-and-copy step.                           *)

\* module.exit_json(changed=..., path=...); path is "path", "None" or
\* "unset" (apply_update passes none)
Exit(changed, path) == [failed |-> FALSE, changed |-> changed, path |-> path]
\* module.fail_json(msg=...)
Fail == [failed |-> TRUE, changed |-> FALSE, path |-> "unset"]

NotDerived == [present |-> FALSE, file |-> Absent]
Derived(f) == [present |-> TRUE, file |-> f]

\* what one run of an operation's function did: the file it leaves, the
\* results it emitted, whether it ended by raising, the step that failed, the
\* MSP IDs the signer was run for, the temporary files and directories it
\* created, those still on disk, those whose removal raised, the paths it
\* removed with os.remove or shutil.rmtree, how the file it
\* found compared with the content it derived, that content, and whether it
\* wrote that content to path, and the external collaborators it called
\* (console login, resolution of organizations and ordering service, the
\* connection to the ordering service, configtxlator), and in their order
\* what it did with the connection and with the file at path
Outcome(f) ==
    [file |-> f, results |-> <<>>, raised |-> FALSE, fault |-> "none",
     signer |-> <<>>, created |-> {}, temps |-> {}, rmfailed |-> {},
     prior |-> "n/a", derived |-> NotDerived, wrote |-> FALSE, calls |-> {},
     events |-> <<>>, removed |-> {}]

\* the operation called the external collaborators named
Called(out, names) == [out EXCEPT !.calls = @ \cup names]

\* the operation did the things named, in this order
Logged(out, names) == [out EXCEPT !.events = @ \o names]

\* the step named raises
Raise(out, step) == [out EXCEPT !.raised = TRUE, !.fault = step]

\* with open(path, 'wb') as file: file.write(proto); w is where it fails
WriteTarget(f, proto, w) ==
    CASE w = "open" -> [file |-> f, raised |-> TRUE]
      [] w = "write" -> [file |-> OnDisk(Truncated), raised |-> TRUE]
      [] OTHER -> [file |-> OnDisk(proto), raised |-> FALSE]

\* the file found at path, against the JSON derived now
Prior(f, type, json, r) ==
    CASE ~f.exists -> "absent"
      [] r \/ ~Parses(type, f.bytes) -> "unparseable"
      [] diff_dicts(proto_to_json(type, f.bytes), json) -> "different"
      [] OTHER -> "equal"

\* Changed with the except branch lost: changed stays False when the old file
\* cannot be read or decoded
ChangedStaysFalse(f, type, json, r) ==
    IF r \/ ~Parses(type, f.bytes) THEN FALSE
    ELSE diff_dicts(proto_to_json(type, f.bytes), json)

\* changed, when path exists: the diff, or True when reading or decoding raises
Changed(f, type, json, r) ==
    IF r \/ ~Parses(type, f.bytes) THEN TRUE
    ELSE diff_dicts(proto_to_json(type, f.bytes), json)

\* CompareAndCopy without the comparison: the file is written in every case
CompareAndCopyAlways(out, type, json, r, w) ==
    LET f == out.file
        proto == json_to_proto(type, json)
        wr == WriteTarget(f, proto, w)
        base == [out EXCEPT !.prior = Prior(f, type, json, r),
                            !.derived = Derived(OnDisk(proto)),
                            !.fault = IF f.exists /\ r THEN "read" ELSE @,
                            !.events = IF f.exists THEN Append(@, "compare")
                                       ELSE @]
        opened == Logged(base, <<"write">>)
    IN  IF wr.raised
        THEN [Raise(opened, w) EXCEPT !.file = wr.file]
        ELSE [opened EXCEPT !.file = wr.file, !.wrote = TRUE,
                            !.results = <<Exit(TRUE, "path")>>]

\* "Compare and copy if needed": r, the read of the old file raises; w, where
\* the write fails
CompareAndCopy(out, type, json, r, w) ==
    LET f == out.file
        proto == json_to_proto(type, json)
        wr == WriteTarget(f, proto, w)
        base == [out EXCEPT !.prior = Prior(f, type, json, r),
                            !.derived = Derived(OnDisk(proto)),
                            !.fault = IF f.exists /\ r THEN "read" ELSE @,
                            !.events = IF f.exists THEN Append(@, "compare")
                                       ELSE @]
        opened == Logged(base, <<"write">>)
        written == IF wr.raised
                   THEN [Raise(opened, w) EXCEPT !.file = wr.file]
                   ELSE [opened EXCEPT !.file = wr.file, !.wrote = TRUE,
                                       !.results = <<Exit(TRUE, "path")>>]
    IN  IF f.exists
        THEN IF Changed(f, type, json, r)
             THEN written
             ELSE [base EXCEPT !.results = <<Exit(FALSE, "path")>>]
        ELSE written

----------------------------------------------------------------------------
(* create                                                                  *)

CreateFaults == {"none", "console", "nodes", "encode", "read", "open", "write"}

\* create(module): fault is the step that fails, addresses the order
\* list(orderer_addresses) has in this process
create(f, p, fault, addresses) ==
    LET out == Called(Outcome(f), {"console"})
        resolved == Called(out, {"organizations"})
        nodes == IF p.ordering_service_nodes.present
                 THEN Called(resolved, {"ordering_service_nodes"})
                 ELSE resolved
        json == ConfigUpdateEnvelope(p.name, ConfigUpdate(p, addresses))
    IN  CASE fault = "console" -> Raise(out, fault)
          [] PolicyRaises(p.policies) -> Raise(resolved, "policy")
          [] fault = "nodes" /\ p.ordering_service_nodes.present ->
                Raise(nodes, fault)
          [] fault = "encode" -> Raise(nodes, fault)
          [] OTHER ->
                CompareAndCopy(nodes, "common.Envelope", json, fault = "read",
                               fault)

----------------------------------------------------------------------------
(* fetch and compute_update                                                *)

Temp(name, i) == <<name, i>>

\* FinallyRemove without the finally: the removal is skipped when the body
\* raised
RemoveUnlessRaised(out, temp, rm) ==
    CASE out.raised ->
            [out EXCEPT !.created = @ \cup {temp}, !.temps = @ \cup {temp}]
      [] rm ->
            [out EXCEPT !.raised = TRUE, !.created = @ \cup {temp},
                        !.temps = @ \cup {temp},
                        !.rmfailed = @ \cup {temp}]
      [] OTHER -> [out EXCEPT !.created = @ \cup {temp},
                              !.removed = @ \cup {temp}]

\* try: ... finally: os.remove(temp); rm: the removal raises
FinallyRemove(out, temp, rm) ==
    IF rm
    THEN [out EXCEPT !.raised = TRUE, !.created = @ \cup {temp},
                     !.temps = @ \cup {temp}, !.rmfailed = @ \cup {temp}]
    ELSE [out EXCEPT !.created = @ \cup {temp}, !.removed = @ \cup {temp}]

\* WithConnection whose connection is not closed when the block is left
WithConnectionLeftOpen(out, call) ==
    Logged(Called(out, {"connection"}), <<"connect", call>>)

\* with ordering_service.connect(...) as connection: connection.<call>(...):
\* one connection is opened, the call is made on it, and the connection is
\* closed when the block is left, by its end or by an exception of the call
WithConnection(out, call) ==
    Logged(Called(out, {"connection"}), <<"connect", call, "close">>)

\* the configurations the ordering service can hold
Configs == 0..MaxContent

FetchFaults ==
    {"none", "console", "identity", "tempfile", "fetch", "decode", "encode",
     "read", "open", "write"}

\* ordering_service_specified: the ordering service is resolved from
\* ordering_service when it is given, from ordering_service_nodes otherwise
OrderingUsed(p) ==
    IF "ordering_service" \in p.given THEN "ordering_service"
    ELSE "ordering_service_nodes"

\* fetch(module): config is what the ordering service returns
fetch(f, p, config, fault, rm) ==
    LET out == Called(Outcome(f), {"console"})
        resolved == Called(out, {OrderingUsed(p)})
        connected == WithConnection(resolved, "fetch")
        config_json == [config |-> config, channel |-> p.name]
    IN  CASE fault = "console" -> Raise(out, fault)
          [] fault \in {"identity", "tempfile"} -> Raise(resolved, fault)
          [] fault \in {"fetch", "decode", "encode"} ->
                FinallyRemove(Raise(connected, fault),
                              Temp("block_proto_path", 0), rm)
          [] OTHER ->
                FinallyRemove(
                    CompareAndCopy(connected, "common.Config", config_json,
                                   fault = "read", fault),
                    Temp("block_proto_path", 0), rm)

ComputeFaults ==
    {"none", "tempfile", "tool", "unlink", "decode", "encode", "read",
     "open", "write"}

\* configtxlator compute_update: 'no differences detected' when the two
\* snapshots are the same configuration
NoDifferences(p) == p.original = p.updated

\* NoDifferencesExit without the removal of the file at path
NoDifferencesKeepsFile(out, fault) ==
    [out EXCEPT !.derived = Derived(Absent),
                !.results = <<Exit(FALSE, "None")>>]

\* the except CalledProcessError branch for 'no differences detected'
NoDifferencesExit(out, fault) ==
    IF out.file.exists
    THEN IF fault = "unlink"
         THEN Raise([out EXCEPT !.derived = Derived(Absent)], fault)
         ELSE [out EXCEPT !.file = Absent, !.derived = Derived(Absent),
                          !.results = <<Exit(TRUE, "None")>>]
    ELSE [out EXCEPT !.derived = Derived(Absent),
                     !.results = <<Exit(FALSE, "None")>>]

\* compute_update removing the file at path on every error of the tool, not
\* only on 'no differences detected'
ComputeUpdateClearsOnError(f, p, fault, rm) ==
    LET out == Outcome(f)
        temp == Temp("config_update_proto_path", 0)
        ran == Called(out, {"configtxlator"})
    IN  FinallyRemove(Raise([ran EXCEPT !.file = Absent], "tool"), temp, rm)

\* compute_update(module)
compute_update(f, p, fault, rm) ==
    LET out == Outcome(f)
        temp == Temp("config_update_proto_path", 0)
        config_update_json ==
            [channel_id |-> p.name, original |-> p.original,
             updated |-> p.updated]
        json == ConfigUpdateEnvelope(p.name, config_update_json)
        ran == Called(out, {"configtxlator"})
    IN  CASE fault = "tempfile" -> Raise(out, fault)
          [] fault = "tool" -> FinallyRemove(Raise(ran, fault), temp, rm)
          [] NoDifferences(p) ->
                FinallyRemove(NoDifferencesExit(ran, fault), temp, rm)
          [] fault \in {"decode", "encode"} ->
                FinallyRemove(Raise(ran, fault), temp, rm)
          [] OTHER ->
                FinallyRemove(
                    CompareAndCopy(ran, "common.Envelope", json,
                                   fault = "read", fault),
                    temp, rm)

----------------------------------------------------------------------------
(* sign_update, sign_update_organizations and apply_update                 *)

\* a signature of the envelope, by its creator
Signature(msp_id) == [signature_header |-> [creator |-> [mspid |-> msp_id]]]

\* whether path can be opened and decoded as an envelope
Readable(f, r) == f.exists /\ ~r /\ Parses("common.Envelope", f.bytes)

\* config_update_envelope_json['payload']['data'].get('signatures', list())
Signatures(f) == proto_to_json("common.Envelope", f.bytes).signatures.items

\* peer channel signconfigtx -f path: appends one signature by msp_id
signconfigtx(f, msp_id) ==
    OnDisk([f.bytes EXCEPT !.signatures = Append(@, Signature(msp_id))])

\* AlreadySigned looking at the first signature only
FirstSigned(signatures, msp_id) ==
    /\ signatures # <<>>
    /\ msp_id = signatures[1].signature_header.creator.mspid

\* the loop over signatures of sign_update: it returns when msp_id has signed
AlreadySigned(signatures, msp_id) ==
    \E i \in DOMAIN signatures :
        msp_id = signatures[i].signature_header.creator.mspid

SignFaults == {"none", "identity", "read", "msp_path", "fabric_cfg_path",
               "signer"}
SignCleanupFaults == {"none", "msp_path", "fabric_cfg_path"}

\* the finally block of sign_update: rmtree(msp_path), rmtree(fabric_cfg_path)
SignFinally(out, rm) ==
    LET msp == Temp("msp_path", 0)
        cfg == Temp("fabric_cfg_path", 0)
        made == [out EXCEPT !.created = @ \cup {msp, cfg}]
    IN  CASE rm = "msp_path" ->
                [made EXCEPT !.raised = TRUE, !.temps = @ \cup {msp, cfg},
                             !.rmfailed = @ \cup {msp}]
          [] rm = "fabric_cfg_path" ->
                [made EXCEPT !.raised = TRUE, !.temps = @ \cup {cfg},
                             !.rmfailed = @ \cup {cfg},
                             !.removed = @ \cup {msp}]
          [] OTHER -> [made EXCEPT !.removed = @ \cup {msp, cfg}]

\* sign_update(module)
sign_update(f, p, fault, rm) ==
    LET out == Outcome(f)
    IN  CASE fault = "identity" -> Raise(out, fault)
          [] ~Readable(f, fault = "read") -> Raise(out, "read")
          [] AlreadySigned(Signatures(f), p.msp_id) ->
                [out EXCEPT !.results = <<Exit(FALSE, "path")>>]
          [] fault = "msp_path" -> Raise(out, fault)
          [] fault = "fabric_cfg_path" ->
                Raise([out EXCEPT !.created = {Temp("msp_path", 0)},
                                  !.temps = {Temp("msp_path", 0)}], fault)
          [] fault = "signer" ->
                SignFinally(
                    Raise([out EXCEPT !.signer = <<p.msp_id>>], fault), rm)
          [] OTHER ->
                SignFinally(
                    [out EXCEPT !.file = signconfigtx(f, p.msp_id),
                                !.derived =
                                    Derived(signconfigtx(f, p.msp_id)),
                                !.signer = <<p.msp_id>>,
                                !.results = <<Exit(TRUE, "path")>>], rm)

\* os.path.join(organizations_dir, msp_id, "msp") of the organization at
\* index i of the list
OrgMspPath(i) == <<"organizations_dir/msp_id/msp", i>>

\* OrgCleanup with the finally block of sign_update, which removes msp_path
\* too
OrgCleanupWithMsp(i) == {Temp("fabric_cfg_path", i), OrgMspPath(i)}

\* what the finally block of the loop of sign_update_organizations removes
\* for the organization at index i: shutil.rmtree(fabric_cfg_path)
OrgCleanup(i) == {Temp("fabric_cfg_path", i)}

\* the inner loop of sign_update_organizations: its continue goes on with the
\* next signature, so the organization is signed for in every case
SkipOrganization(signatures, msp_id) == FALSE

OrgFaults == {"none", "read", "fabric_cfg_path", "signer", "rmtree",
              "signer+rmtree"}

\* the for loop of sign_update_organizations from organization i on; the fault
\* kind strikes at organization `at`
RECURSIVE SignLoop(_, _, _, _, _, _)
SignLoop(out, signatures, organizations, i, at, kind) ==
    IF i > Len(organizations) THEN out
    ELSE
        LET msp_id == organizations[i]
            cfg == Temp("fabric_cfg_path", i)
            hit == i = at /\ kind \notin {"none", "read"}
            signed == [out EXCEPT
                        !.file = signconfigtx(out.file, msp_id),
                        !.derived = Derived(signconfigtx(out.file, msp_id)),
                        !.signer = Append(@, msp_id),
                        !.created = @ \cup {cfg},
                        !.removed = @ \cup OrgCleanup(i)]
            failed == Raise([out EXCEPT !.signer = Append(@, msp_id),
                                        !.created = @ \cup {cfg},
                                        !.removed = @ \cup OrgCleanup(i)],
                            "signer")
        IN  CASE SkipOrganization(signatures, msp_id) ->
                    SignLoop(out, signatures, organizations, i + 1, at, kind)
              [] hit /\ kind = "fabric_cfg_path" -> Raise(out, kind)
              [] hit /\ kind = "signer" -> failed
              [] hit /\ kind = "signer+rmtree" ->
                    [failed EXCEPT !.temps = @ \cup {cfg},
                                   !.rmfailed = @ \cup {cfg},
                                   !.removed = out.removed]
              [] hit /\ kind = "rmtree" ->
                    [signed EXCEPT !.raised = TRUE, !.temps = @ \cup {cfg},
                                   !.rmfailed = @ \cup {cfg},
                                   !.removed = out.removed]
              [] OTHER ->
                    SignLoop(signed, signatures, organizations, i + 1, at,
                             kind)

\* sign_update_organizations putting the envelope back when the loop raises
SignOrganizationsAllOrNothing(f, p, at, kind) ==
    LET out == Outcome(f)
        done == SignLoop(out, Signatures(f), p.organizations, 1, at, kind)
    IN  IF ~Readable(f, kind = "read") THEN Raise(out, "read")
        ELSE IF done.raised THEN [done EXCEPT !.file = f]
        ELSE [done EXCEPT !.results = <<Exit(TRUE, "path")>>]

\* sign_update_organizations(module)
sign_update_organizations(f, p, at, kind) ==
    LET out == Outcome(f)
        done == SignLoop(out, Signatures(f), p.organizations, 1, at, kind)
    IN  IF ~Readable(f, kind = "read") THEN Raise(out, "read")
        ELSE IF done.raised THEN done
        ELSE [done EXCEPT !.results = <<Exit(TRUE, "path")>>]

ApplyFaults == {"none", "console", "identity", "connect", "update"}

\* apply_update reporting success whatever the ordering service answered
ApplyUpdateSwallows(f, p, fault) ==
    [Called(Outcome(f), {"console", OrderingUsed(p), "connection"})
        EXCEPT !.fault = fault, !.results = <<Exit(TRUE, "unset")>>]

\* apply_update(module)
apply_update(f, p, fault) ==
    LET out == Called(Outcome(f), {"console"})
        resolved == Called(out, {OrderingUsed(p)})
        connected == WithConnection(resolved, "update")
    IN  CASE fault = "console" -> Raise(out, fault)
          [] fault = "identity" -> Raise(resolved, fault)
          [] fault = "connect" ->
                Raise(Called(resolved, {"connection"}), fault)
          [] fault = "update" -> Raise(connected, fault)
          [] OTHER -> [connected EXCEPT !.results = <<Exit(TRUE, "unset")>>]

----------------------------------------------------------------------------
(* main and the invocations.                                               *)

\* main(): an exception of the operation is reported with fail_json
main(out) ==
    [out EXCEPT !.results = IF out.raised THEN Append(@, Fail) ELSE @]

\* required_if: the parameters each operation requires
RequiredIf(op) ==
    CASE op = "create" ->
            {"api_endpoint", "api_authtype", "api_key", "organizations",
             "policies", "name", "path"}
      [] op \in {"fetch", "apply_update"} ->
            {"api_endpoint", "api_authtype", "api_key", "identity", "msp_id",
             "name", "path"}
      [] op = "compute_update" -> {"name", "path", "original", "updated"}
      [] op = "sign_update" -> {"identity", "msp_id", "name", "path"}
      [] op = "sign_update_organizations" ->
            {"organizations", "organizations_dir", "name", "path"}

\* RequiredOneOf when main() passes no required_one_of
NoRequiredOneOf(op) == {}

\* required_one_of: set for fetch and apply_update only
RequiredOneOf(op) ==
    IF op \in {"fetch", "apply_update"}
    THEN {{"ordering_service", "ordering_service_nodes"}}
    ELSE {}

\* the api_authtype of the invocations that name one
AuthType == "basic"

\* the argument checks of BlockchainModule(argument_spec, required_if,
\* required_one_of) on the parameters given (those that are not None)
Validates(op, given) ==
    /\ RequiredIf(op) \subseteq given
    /\ ("api_authtype" \in given /\ AuthType = "basic")
            => "api_secret" \in given
    /\ \A group \in RequiredOneOf(op) : group \cap given # {}

\* the parameters an invocation of op gives: all that its operation needs,
\* with each choice among ordering_service and ordering_service_nodes, or all
\* but one
AllNeeded(op) ==
    RequiredIf(op)
    \cup (IF "api_authtype" \in RequiredIf(op) THEN {"api_secret"} ELSE {})
OrderingNames == {"ordering_service", "ordering_service_nodes"}
OrderingChoices(op) ==
    IF op \in {"fetch", "apply_update"} THEN SUBSET OrderingNames ELSE {{}}
Lacking(op) ==
    {(AllNeeded(op) \ {d})
        \cup (IF op \in {"fetch", "apply_update"}
              THEN {"ordering_service"} ELSE {}) : d \in AllNeeded(op)}
GivenSets(op) ==
    {AllNeeded(op) \cup o : o \in OrderingChoices(op)} \cup Lacking(op)

Channels == {"mychannel"}

PolicyKinds == {"dict", "path", "badpath", "other"}
Policies ==
    {[Admins |-> [kind |-> k,
                  doc |-> IF k \in {"dict", "path"} THEN "AdminsPolicy"
                          ELSE ""]] : k \in PolicyKinds}

\* the names of the optional settings of create
OptionNames ==
    {"capabilities.channel", "capabilities.orderer", "parameters.batch_size",
     "parameters.batch_timeout", "acls"}

\* the optional settings of create: none supplied, all of them supplied, or
\* all of them supplied with an empty value ('' for a string, {} for a dict;
\* a batch_size of {} reaches create as a dict of its three keys, each None);
\* `supplied` names the settings that are not None in module.params
NoOptions ==
    [capabilities |-> [application |-> "V1_4_2", channel |-> "",
                       orderer |-> ""],
     parameters |-> [batch_size |-> [present |-> FALSE, keys |-> <<>>],
                     batch_timeout |-> ""],
     acls |-> {},
     supplied |-> {}]
EmptyOptions ==
    [capabilities |-> [application |-> "V1_4_2", channel |-> "",
                       orderer |-> ""],
     parameters |->
        [batch_size |->
            [present |-> TRUE,
             keys |-> [max_message_count |-> 0, absolute_max_bytes |-> 0,
                       preferred_max_bytes |-> 0]],
         batch_timeout |-> ""],
     acls |-> {},
     supplied |-> OptionNames]
AllOptions ==
    [capabilities |-> [application |-> "V2_0", channel |-> "V2_0",
                       orderer |-> "V2_0"],
     parameters |->
        [batch_size |->
            [present |-> TRUE,
             keys |-> [max_message_count |-> 500, absolute_max_bytes |-> 0,
                       preferred_max_bytes |-> 0]],
         batch_timeout |-> "2s"],
     acls |-> {<<"lscc/ChaincodeExists", "/Channel/Application/Readers">>},
     supplied |-> OptionNames]
OptionProfiles == {NoOptions, AllOptions, EmptyOptions}

NodeLists == {NoList} \cup {JsonList(s) : s \in SeqsUpTo(Nodes, MaxNodes)}

CreateParams ==
    {[name |-> n, organizations |-> <<"Org1MSP", "Org2MSP">>,
      policies |-> pol, capabilities |-> o.capabilities,
      parameters |-> o.parameters, acls |-> o.acls,
      supplied |-> o.supplied, ordering_service_nodes |-> nodes,
      given |-> AllNeeded("create")] :
        n \in Channels, pol \in Policies, o \in OptionProfiles,
        nodes \in NodeLists}

\* the create invocations of the whole workflow name no ordering service nodes
WorkflowCreateParams ==
    {p \in CreateParams : ~p.ordering_service_nodes.present}

\* the invocations of the workflow give what their operation needs, and the
\* ordering service by name
FetchParams ==
    [name : Channels, given : {AllNeeded("fetch") \cup {"ordering_service"}}]
ComputeParams ==
    [name : Channels, original : Configs, updated : Configs,
     given : {AllNeeded("compute_update")}]
SignParams == [msp_id : MspIds, given : {AllNeeded("sign_update")}]
\* organization lists name an organization once
OrgParams ==
    {[organizations |-> s,
      given |-> AllNeeded("sign_update_organizations")] :
        s \in {t \in SeqsUpTo(MspIds, MaxOrgs) :
                    Cardinality(Range(t)) = Len(t)}}
ApplyParams ==
    [name : Channels,
     given : {AllNeeded("apply_update") \cup {"ordering_service"}}]

Operations ==
    {"create", "fetch", "compute_update", "sign_update",
     "sign_update_organizations", "apply_update"}

\* one invocation of each operation, for every set of parameters given, in
\* normal mode and in check mode (supports_check_mode=True: the module is run
\* in check mode too, and no operation reads module.check_mode)
AnyParams(op) ==
    CASE op = "create" ->
            {[name |-> "mychannel",
              organizations |-> <<"Org1MSP", "Org2MSP">>,
              policies |->
                [Admins |-> [kind |-> "dict", doc |-> "AdminsPolicy"]],
              capabilities |-> NoOptions.capabilities,
              parameters |-> NoOptions.parameters, acls |-> NoOptions.acls,
              supplied |-> NoOptions.supplied,
              ordering_service_nodes |-> NoList,
              given |-> g, check_mode |-> c] :
                g \in GivenSets(op), c \in BOOLEAN}
      [] op \in {"fetch", "apply_update"} ->
            [name : {"mychannel"}, given : GivenSets(op),
             check_mode : BOOLEAN]
      [] op = "compute_update" ->
            [name : {"mychannel"}, original : {0}, updated : Configs,
             given : GivenSets(op), check_mode : BOOLEAN]
      [] op = "sign_update" ->
            [msp_id : MspIds, given : GivenSets(op), check_mode : BOOLEAN]
      [] op = "sign_update_organizations" ->
            [organizations : {<<"Org1MSP">>, <<"Org2MSP">>},
             given : GivenSets(op), check_mode : BOOLEAN]

\* the result exit_json reported, if it was called
Exited(i) == i.results # <<>> /\ ~i.results[1].failed
Reports(i, changed) == Exited(i) /\ i.results[1].changed = changed
\* the invocation ended with fail_json
FailedRun(i) == i.results # <<>> /\ i.results[Len(i.results)].failed

\* the invocation before was another operation or had other parameters
NoPrev == [same |-> FALSE, exited |-> FALSE, changed |-> FALSE,
           fresh |-> FALSE, derived |-> NotDerived]

\* main() up to the dispatch: the module is invoked for operation op with
\* parameters p; BlockchainModule checks them and ends the invocation with
\* fail_json when they do not pass, else nothing has run yet
Start(op, p) ==
    /\ inv.pc # "running"
    /\ inv' = [op |-> op, params |-> p,
               pc |-> IF Validates(op, p.given) THEN "running"
                      ELSE "rejected",
               results |-> IF Validates(op, p.given) THEN <<>> ELSE <<Fail>>,
               fault |-> "none", signer |-> <<>>, created |-> {},
               temps |-> {}, rmfailed |-> {}, prior |-> "n/a",
               derived |-> NotDerived, wrote |-> FALSE, calls |-> {},
               events |-> <<>>, removed |-> {},
               fresh |-> ~file.exists, untouched |-> TRUE]
    /\ prev' = IF inv.pc = "done" /\ inv.op = op /\ inv.params = p
               THEN [same |-> TRUE, exited |-> Exited(inv),
                     changed |-> Reports(inv, TRUE), fresh |-> inv.fresh,
                     derived |-> inv.derived]
               ELSE NoPrev
    /\ UNCHANGED file

\* main() is about to call the function of operation op
Running(op) == inv.pc = "running" /\ inv.op = op

\* the dispatch of main(): the operation's function runs to its end and did
\* out; an exception it raised is reported with fail_json
Finish(op, out) ==
    LET done == main(out)
    IN  /\ Running(op)
        /\ file' = done.file
        /\ inv' = [inv EXCEPT !.pc = "done", !.results = done.results,
                              !.fault = done.fault,
                              !.signer = done.signer,
                              !.created = done.created,
                              !.temps = done.temps,
                              !.rmfailed = done.rmfailed,
                              !.prior = done.prior,
                              !.wrote = done.wrote,
                              !.calls = done.calls,
                              !.events = done.events,
                              !.removed = done.removed,
                              !.derived = done.derived,
                              !.untouched = done.file = file]
        /\ UNCHANGED prev

\* the envelope can take n more signatures within the model's bound
RoomFor(n) ==
    Readable(file, FALSE) => Len(Signatures(file)) + n <= MaxSigs

\* msp_id is among the signers of the envelope at path
SignedBy(msp_id) ==
    /\ Readable(file, FALSE)
    /\ \E i \in DOMAIN Signatures(file) :
            Signatures(file)[i].signature_header.creator.mspid = msp_id

\* the create task of one playbook: it is run, and run again, with the
\* parameters it was written with
InvokeCreate ==
    \E p \in CreateParams :
        /\ inv.op = "create" => p = inv.params
        /\ Start("create", p)

Invoke ==
    \/ \E p \in WorkflowCreateParams : Start("create", p)
    \/ \E p \in FetchParams : Start("fetch", p)
    \/ \E p \in ComputeParams : Start("compute_update", p)
    \/ \E p \in SignParams :
            /\ RoomFor(1) \/ SignedBy(p.msp_id)
            /\ Start("sign_update", p)
    \/ \E p \in OrgParams :
            /\ RoomFor(Len(p.organizations))
            /\ Start("sign_update_organizations", p)
    \/ \E p \in ApplyParams : Start("apply_update", p)

Create ==
    /\ Running("create")
    /\ \E fault \in CreateFaults :
            \E addresses \in Orderings(OrdererAddressSet(
                                inv.params.ordering_service_nodes.items)) :
                Finish("create", create(file, inv.params, fault, addresses))

Fetch ==
    /\ Running("fetch")
    /\ \E config \in Configs, fault \in FetchFaults, rm \in BOOLEAN :
            Finish("fetch", fetch(file, inv.params, config, fault, rm))

ComputeUpdate ==
    /\ Running("compute_update")
    /\ \E fault \in ComputeFaults, rm \in BOOLEAN :
            Finish("compute_update", compute_update(file, inv.params, fault, rm))

SignUpdate ==
    /\ Running("sign_update")
    /\ \E fault \in SignFaults, rm \in SignCleanupFaults :
            Finish("sign_update", sign_update(file, inv.params, fault, rm))

SignUpdateOrganizations ==
    /\ Running("sign_update_organizations")
    /\ \E kind \in OrgFaults :
            \E at \in 1..Len(inv.params.organizations) \cup {1} :
                Finish("sign_update_organizations",
                       sign_update_organizations(file, inv.params, at, kind))

ApplyUpdate ==
    /\ Running("apply_update")
    /\ \E fault \in ApplyFaults :
            Finish("apply_update", apply_update(file, inv.params, fault))

Init ==
    /\ file \in {Absent, OnDisk(Garbage)}
    /\ inv = [op |-> "none", params |-> <<>>, pc |-> "idle",
              results |-> <<>>, fault |-> "none", signer |-> <<>>,
              created |-> {}, temps |-> {}, rmfailed |-> {},
              prior |-> "n/a", derived |-> NotDerived, wrote |-> FALSE,
              calls |-> {}, events |-> <<>>, removed |-> {},
              fresh |-> FALSE, untouched |-> TRUE]
    /\ prev = NoPrev

Next ==
    \/ Invoke
    \/ Create
    \/ Fetch
    \/ ComputeUpdate
    \/ SignUpdate
    \/ SignUpdateOrganizations
    \/ ApplyUpdate

Spec == Init /\ [][Next]_vars

\* every operation, invoked with every set of parameters given
InvokeAny ==
    \E op \in Operations :
        \E p \in AnyParams(op) :
            /\ op = "sign_update" => RoomFor(1) \/ SignedBy(p.msp_id)
            /\ op = "sign_update_organizations" => RoomFor(1)
            /\ Start(op, p)

NextAny ==
    \/ InvokeAny
    \/ Create
    \/ Fetch
    \/ ComputeUpdate
    \/ SignUpdate
    \/ SignUpdateOrganizations
    \/ ApplyUpdate

SpecAny == Init /\ [][NextAny]_vars

\* create alone, with every parameter set the model draws
NextCreate ==
    \/ InvokeCreate
    \/ Create

SpecCreate == Init /\ [][NextCreate]_vars

----------------------------------------------------------------------------
(* Properties.                                                             *)

\* the last invocation has ended
Done(op) == inv.pc = "done" /\ inv.op = op

WritingOps == {"create", "fetch", "compute_update"}
SigningOps == {"sign_update", "sign_update_organizations"}

\* the MSP IDs of the signatures the envelope file f carries
SignersOf(f) ==
    [i \in DOMAIN f.bytes.signatures |->
        f.bytes.signatures[i].signature_header.creator.mspid]

\* how many signatures of msp_id the envelope file f carries
SignaturesBy(f, msp_id) ==
    Cardinality({i \in DOMAIN SignersOf(f) : SignersOf(f)[i] = msp_id})

\* the file at path is the complete content the invocation derived
HoldsDerived == inv.derived.present /\ file = inv.derived.file

\* C1: starting with no file at path, two consecutive create invocations with
\* the same parameters and no fault: the first reports changed=true, the
\* second reports changed=false and leaves the file as it is
C1_CreateTwiceUnchanged ==
    (/\ Done("create")
     /\ prev.same /\ prev.fresh /\ prev.exited
     /\ inv.fault = "none")
    => /\ prev.changed
       /\ Reports(inv, FALSE)
       /\ inv.untouched

\* C2: sign_update on an envelope that carries a signature of msp_id does not
\* run the signer and leaves the file as it is, and reports changed=false
\* unless it failed before it read the envelope; a second sign_update for the
\* same organization right after one that reported changed=true reports
\* changed=false and the envelope carries exactly one signature of it
C2_SignUpdateDedup ==
    /\ [][(/\ Running("sign_update")
           /\ file.exists
           /\ file.bytes.type = "common.Envelope"
           /\ SignaturesBy(file, inv.params.msp_id) > 0
           /\ inv'.pc = "done")
          => /\ inv'.signer = <<>>
             /\ file' = file
             /\ inv'.fault \notin {"identity", "read"}
                    => inv'.results = <<Exit(FALSE, "path")>>]_vars
    /\ [](( /\ Done("sign_update")
            /\ prev.same /\ prev.changed
            /\ inv.fault \notin {"identity", "read"})
          => /\ inv.results = <<Exit(FALSE, "path")>>
             /\ inv.signer = <<>>
             /\ inv.untouched
             /\ SignaturesBy(file, inv.params.msp_id) = 1)

C2_Witness ==
    /\ Done("sign_update")
    /\ prev.same /\ prev.changed
    /\ inv.results = <<Exit(FALSE, "path")>>
    /\ inv.signer = <<>>
    /\ SignaturesBy(file, inv.params.msp_id) = 1

\* C3: the envelope at path carries at most one signature per MSP ID
C3_UniqueSigners ==
    (file.exists /\ file.bytes.type = "common.Envelope")
    => \A m \in MspIds : SignaturesBy(file, m) <= 1

\* C4 as stated: 'no differences detected' ends with changed=false, path=None
\* and no file at path, whether or not a file was there
C4_NoDifferencesUnchanged ==
    (/\ Done("compute_update")
     /\ inv.params.original = inv.params.updated
     /\ Exited(inv))
    => /\ inv.results[1] = Exit(FALSE, "None")
       /\ ~file.exists

\* C4: 'no differences detected' ends with path=None and no file at path;
\* changed is true exactly when a file was there and was removed
C4_NoDifferencesClears ==
    (/\ Done("compute_update")
     /\ inv.params.original = inv.params.updated
     /\ Exited(inv))
    => /\ inv.results[1] = Exit(~inv.fresh, "None")
       /\ ~file.exists

C4_Witness ==
    /\ Done("compute_update")
    /\ inv.params.original = inv.params.updated
    /\ inv.results = <<Exit(TRUE, "None")>>
    /\ ~inv.fresh
    /\ ~file.exists

\* C5: create, fetch and compute_update (with differences) write the file
\* exactly when the file found was absent, unparseable or different from the
\* derived content; an equal file is left as it is; changed is true exactly
\* when the file was written
C5_WrittenIffDifferent ==
    (/\ inv.pc = "done" /\ inv.op \in WritingOps
     /\ inv.prior # "n/a"
     /\ Exited(inv))
    => /\ inv.wrote <=> inv.prior \in {"absent", "unparseable", "different"}
       /\ inv.wrote => HoldsDerived
       /\ ~inv.wrote => inv.untouched
       /\ inv.results[1].changed <=> inv.wrote
       /\ inv.results[1].path = "path"

C5_Witness ==
    /\ inv.pc = "done" /\ inv.op \in WritingOps
    /\ inv.prior = "equal"
    /\ inv.results = <<Exit(FALSE, "path")>>
    /\ ~inv.wrote /\ inv.untouched

\* C6: when the file found at path cannot be read or decoded, create, fetch
\* and compute_update overwrite it with the derived content and report
\* changed=true; they fail there only when the write fails
C6_UnparseableOverwritten ==
    (/\ inv.pc = "done" /\ inv.op \in WritingOps
     /\ inv.prior = "unparseable")
    => IF inv.fault \in {"open", "write"}
       THEN ~Exited(inv) /\ FailedRun(inv)
       ELSE /\ Reports(inv, TRUE)
            /\ HoldsDerived
            /\ FailedRun(inv) => inv.rmfailed # {}

C6_Witness ==
    /\ inv.pc = "done" /\ inv.op \in WritingOps
    /\ inv.prior = "unparseable"
    /\ inv.results = <<Exit(TRUE, "path")>>
    /\ HoldsDerived

\* C7: when sign_update or sign_update_organizations has ended, every
\* temporary directory it created is gone, unless its own removal raised
C7_SigningLeavesNoTemps ==
    (inv.pc = "done" /\ inv.op \in SigningOps)
    => inv.temps \subseteq inv.rmfailed

\* C8: when fetch or compute_update has ended, on success or on failure, the
\* temporary file it created is gone, unless its removal itself raised
C8_TempFileRemoved ==
    (inv.pc = "done" /\ inv.op \in {"fetch", "compute_update"})
    => /\ inv.temps \subseteq inv.rmfailed
       /\ inv.rmfailed = {} => inv.temps = {}

C8_Witness ==
    /\ inv.pc = "done" /\ inv.op \in {"fetch", "compute_update"}
    /\ inv.created # {}
    /\ inv.temps = {}
    /\ FailedRun(inv)

\* C9: when an operation has ended, on success or on failure, the file at path
\* is exactly what it was before or exactly the complete new content
C9_NoPartialWrite ==
    inv.pc = "done" => inv.untouched \/ HoldsDerived

\* C10: two consecutive runs of create with the same parameters derive the
\* same configuration update, list orders included
C10_BuilderDeterministic ==
    (/\ Done("create")
     /\ prev.same
     /\ prev.derived.present /\ inv.derived.present)
    => inv.derived = prev.derived

\* the configuration update the last create derived, as it is serialized
EmittedUpdate == inv.derived.file.bytes.config_update

\* create ran to the end of the builder with ordering service nodes
BuiltWithNodes ==
    /\ Done("create")
    /\ inv.derived.present
    /\ inv.params.ordering_service_nodes.present

\* the list s without the later occurrences of its elements
RECURSIVE FirstOccurrences(_)
FirstOccurrences(s) ==
    IF s = <<>> THEN <<>>
    ELSE LET r == FirstOccurrences(SubSeq(s, 1, Len(s) - 1))
         IN  IF s[Len(s)] \in Range(r) THEN r ELSE Append(r, s[Len(s)])

\* C11: the consenters create emits are one per distinct ordering service
\* node, in the order of first occurrence in the node list
C11_ConsentersDeduplicated ==
    BuiltWithNodes
    => EmittedUpdate.write_set.groups.Orderer.values.ConsensusType.value
            .consenters
       = Consenters(FirstOccurrences(inv.params.ordering_service_nodes.items))

\* the orderer addresses the last create emitted
EmittedAddresses ==
    EmittedUpdate.write_set.values.OrdererAddresses.value.addresses

\* C12: the orderer addresses create emits hold no address twice, and they are
\* exactly the host:port of the nodes, the port being 443 for a URL without
\* one
C12_AddressesAreTheSet ==
    BuiltWithNodes
    => /\ \A i, j \in DOMAIN EmittedAddresses :
                EmittedAddresses[i] = EmittedAddresses[j] => i = j
       /\ Range(EmittedAddresses) =
            {<<n.hostname, IF n.port = 0 THEN 443 ELSE n.port>> :
                n \in Range(inv.params.ordering_service_nodes.items)}

C12_Witness ==
    /\ BuiltWithNodes
    /\ Len(inv.params.ordering_service_nodes.items) = 2
    /\ EmittedAddresses = <<<<"o3", 443>>>>

\* create ran to the end of the builder
Built == Done("create") /\ inv.derived.present

\* the Orderer group of the emitted write_set has the value named key
OrdererValue(key) ==
    /\ EmittedUpdate.write_set.groups.Orderer.present
    /\ EmittedUpdate.write_set.groups.Orderer.values[key].present

\* the setting named option is not None in the parameters of the invocation
Supplied(option) == option \in inv.params.supplied

\* C13 as stated: a node is in the write_set exactly when its option is
\* supplied
C13_SuppliedOptionsOnly ==
    Built
    => /\ EmittedUpdate.write_set.values.Capabilities.present
            <=> Supplied("capabilities.channel")
       /\ OrdererValue("Capabilities") <=> Supplied("capabilities.orderer")
       /\ OrdererValue("BatchSize") <=> Supplied("parameters.batch_size")
       /\ OrdererValue("BatchTimeout") <=> Supplied("parameters.batch_timeout")
       /\ EmittedUpdate.write_set.groups.Application.values.ACLs.present
            <=> Supplied("acls")
       /\ OrdererValue("ConsensusType")
            <=> inv.params.ordering_service_nodes.present
       /\ EmittedUpdate.write_set.values.OrdererAddresses.present
            <=> inv.params.ordering_service_nodes.present
       /\ EmittedUpdate.write_set.groups.Orderer.present
            <=> \/ Supplied("capabilities.orderer")
                \/ Supplied("parameters.batch_size")
                \/ Supplied("parameters.batch_timeout")
                \/ inv.params.ordering_service_nodes.present

\* C13: a node is in the write_set exactly when its option is supplied and
\* not empty (capabilities.channel, capabilities.orderer, batch_timeout,
\* acls), supplied (batch_size), or not None, an empty list included
\* (ordering_service_nodes); the Orderer group exists exactly when one of its
\* four values does
C13_NonEmptyOptionsOnly ==
    Built
    => /\ EmittedUpdate.write_set.values.Capabilities.present
            <=> (Supplied("capabilities.channel")
                    /\ inv.params.capabilities.channel # "")
       /\ OrdererValue("Capabilities")
            <=> (Supplied("capabilities.orderer")
                    /\ inv.params.capabilities.orderer # "")
       /\ OrdererValue("BatchSize") <=> Supplied("parameters.batch_size")
       /\ OrdererValue("BatchTimeout")
            <=> (Supplied("parameters.batch_timeout")
                    /\ inv.params.parameters.batch_timeout # "")
       /\ EmittedUpdate.write_set.groups.Application.values.ACLs.present
            <=> (Supplied("acls") /\ inv.params.acls # {})
       /\ OrdererValue("ConsensusType")
            <=> inv.params.ordering_service_nodes.present
       /\ EmittedUpdate.write_set.values.OrdererAddresses.present
            <=> inv.params.ordering_service_nodes.present
       /\ EmittedUpdate.write_set.groups.Orderer.present
            <=> \E key \in {"Capabilities", "BatchSize", "BatchTimeout",
                             "ConsensusType"} : OrdererValue(key)

C13_Witness ==
    /\ Built
    /\ inv.params.supplied = OptionNames
    /\ inv.params.acls = {}
    /\ inv.params.ordering_service_nodes = JsonList(<<>>)
    /\ ~EmittedUpdate.write_set.groups.Application.values.ACLs.present
    /\ OrdererValue("ConsensusType")
    /\ OrdererValue("BatchSize")
    /\ ~OrdererValue("BatchTimeout")

\* a parameter the operation of the last invocation requires was not given
MissingRequired ==
    \/ RequiredIf(inv.op) \ inv.params.given # {}
    \/ /\ inv.op \in {"fetch", "apply_update"}
       /\ inv.params.given \cap OrderingNames = {}

\* the last invocation ended with fail_json and did nothing else
NothingRan ==
    /\ inv.results = <<Fail>>
    /\ inv.calls = {} /\ inv.signer = <<>> /\ inv.created = {}
    /\ inv.prior = "n/a" /\ ~inv.wrote /\ ~inv.derived.present
    /\ inv.untouched

C15_OrderingExclusive ==
    (/\ inv.pc # "idle"
     /\ inv.op \in {"fetch", "apply_update"}
     /\ OrderingNames \subseteq inv.params.given)
    => inv.pc = "rejected"

\* C16: every successful result names the path
C16_ResultNamesPath ==
    (inv.pc = "done" /\ Exited(inv)) => inv.results[1].path = "path"

\* C17: apply_update reports changed=true exactly when the submission went
\* through; when a step of it fails the invocation fails and reports no
\* success; the file at path is neither read, written nor removed by it
C17_ApplyUpdate ==
    Done("apply_update")
    => /\ Exited(inv) <=> inv.fault = "none"
       /\ Exited(inv)
            => /\ inv.results = <<Exit(TRUE, "unset")>>
               /\ "connection" \in inv.calls
       /\ ~Exited(inv) => inv.results = <<Fail>>
       /\ inv.untouched /\ inv.prior = "n/a" /\ ~inv.wrote

C17_Witness ==
    /\ Done("apply_update")
    /\ inv.fault = "update"
    /\ "connection" \in inv.calls
    /\ inv.results = <<Fail>>
    /\ file.exists /\ inv.untouched

\* C18: sign_update_organizations does not run the signer for an
\* organization whose signature the envelope carries, and reports
\* changed=false when every organization of its list has signed
C18_OrganizationsSkipSigned ==
    [][(/\ Running("sign_update_organizations")
        /\ Readable(file, FALSE)
        /\ inv.params.organizations # <<>>
        /\ inv'.pc = "done"
        /\ inv'.fault = "none")
       => /\ \A i \in DOMAIN inv'.signer :
                SignaturesBy(file, inv'.signer[i]) = 0
          /\ (\A i \in DOMAIN inv.params.organizations :
                SignaturesBy(file, inv.params.organizations[i]) > 0)
                => inv'.results = <<Exit(FALSE, "path")>>]_vars

\* C19: when the signer fails for organization n of the list, the invocation
\* fails, the signer was run for organizations 1..n and no other, and the
\* envelope holds what it held plus the signatures of organizations 1..n-1
C19_FailFast ==
    [][(/\ Running("sign_update_organizations")
        /\ inv'.pc = "done"
        /\ inv'.fault = "signer")
       => /\ inv'.results = <<Fail>>
          /\ \E n \in DOMAIN inv.params.organizations :
                /\ inv'.signer = SubSeq(inv.params.organizations, 1, n)
                /\ file'.exists
                /\ SignersOf(file') =
                        SignersOf(file)
                        \o SubSeq(inv.params.organizations, 1, n - 1)]_vars

C19_Witness ==
    /\ Done("sign_update_organizations")
    /\ inv.fault = "signer"
    /\ inv.results = <<Fail>>
    /\ Len(inv.signer) = 2
    /\ inv.signer = inv.params.organizations
    /\ ~inv.untouched
    /\ SignersOf(file) = <<inv.params.organizations[1]>>

\* C20: a create with an invalid policy fails before any external call: no
\* console login, no resolution of organizations or nodes, nothing derived,
\* the file at path left alone
C20_InvalidPolicyFirst ==
    (Done("create") /\ PolicyRaises(inv.params.policies))
    => /\ FailedRun(inv)
       /\ inv.calls = {}
       /\ ~inv.derived.present
       /\ inv.untouched

\* the operations that remove a temporary file or directory in a finally block
CleanupOps ==
    {"fetch", "compute_update", "sign_update", "sign_update_organizations"}

\* C21: when removing a temporary file or directory fails at the end of fetch,
\* compute_update, sign_update or sign_update_organizations after the
\* operation reported success, that success is the only and final result of
\* the invocation
C21_CleanupKeepsOutcome ==
    (/\ inv.pc = "done" /\ inv.op \in CleanupOps
     /\ inv.rmfailed # {}
     /\ Exited(inv))
    => /\ Len(inv.results) = 1
       /\ ~FailedRun(inv)

\* the read_set of the emitted update has the Orderer value named key
ReadOrdererValue(key) ==
    /\ EmittedUpdate.read_set.groups.Orderer.present
    /\ EmittedUpdate.read_set.groups.Orderer.values[key].present

\* the ConsensusType value of the emitted write_set
EmittedConsensusType ==
    EmittedUpdate.write_set.groups.Orderer.values.ConsensusType.value

\* C22: in every update create builds, the write_set holds Orderer
\* ConsensusType (etcdraft, with consenters and raft options) exactly when it
\* holds the OrdererAddresses value, the addresses are the host:port of the
\* consenters, and the read_set holds its ConsensusType and OrdererAddresses
\* entries in exactly that case
C22_ConsentersAndAddressesTogether ==
    Built
    => /\ OrdererValue("ConsensusType")
            <=> EmittedUpdate.write_set.values.OrdererAddresses.present
       /\ OrdererValue("ConsensusType")
            => /\ EmittedConsensusType.type = "etcdraft"
               /\ EmittedConsensusType.options.election_tick = 10
               /\ {<<EmittedConsensusType.consenters[i].host,
                     EmittedConsensusType.consenters[i].port>> :
                        i \in DOMAIN EmittedConsensusType.consenters}
                    = Range(EmittedAddresses)
               /\ EmittedConsensusType.consenters
                    = Consenters(inv.params.ordering_service_nodes.items)
       /\ ReadOrdererValue("ConsensusType") <=> OrdererValue("ConsensusType")
       /\ EmittedUpdate.read_set.values.OrdererAddresses.present
            <=> EmittedUpdate.write_set.values.OrdererAddresses.present

C22_Witness ==
    /\ BuiltWithNodes
    /\ inv.params.ordering_service_nodes.items = <<NodeA, NodeB>>
    /\ OrdererValue("ConsensusType")
    /\ ReadOrdererValue("ConsensusType")
    /\ Len(EmittedAddresses) = 2

\* C23: in every update create builds, under every combination of options,
\* each node of the write_set has its ancestor groups in the read_set (the
\* Application group for what is written under Application, the Orderer group
\* for every value written under Orderer), and every organization is a child
\* group of Application in the read_set and in the write_set
C23_AncestorsInReadSet ==
    Built
    => /\ "Application" \in DOMAIN EmittedUpdate.read_set.groups
       /\ "groups" \in DOMAIN EmittedUpdate.read_set.groups.Application
       /\ EmittedUpdate.write_set.groups.Orderer.present
            => EmittedUpdate.read_set.groups.Orderer.present
       /\ \A key \in {"Capabilities", "BatchSize", "BatchTimeout",
                      "ConsensusType"} :
            OrdererValue(key) => EmittedUpdate.read_set.groups.Orderer.present
       /\ \A msp_id \in Range(inv.params.organizations) :
            /\ msp_id \in EmittedUpdate.read_set.groups.Application.groups
            /\ msp_id \in EmittedUpdate.write_set.groups.Application.groups

C23_Witness ==
    /\ Built
    /\ inv.params.supplied = OptionNames
    /\ OrdererValue("BatchTimeout")
    /\ OrdererValue("ConsensusType")
    /\ EmittedUpdate.write_set.groups.Application.values.ACLs.present
    /\ EmittedUpdate.read_set.groups.Orderer.present
    /\ EmittedUpdate.read_set.groups.Application.groups
            = {"Org1MSP", "Org2MSP"}

\* the version a node of the emitted write_set carries
ApplicationValueVersion(key) ==
    EmittedUpdate.write_set.groups.Application.values[key].version
OrdererValueVersion(key) ==
    EmittedUpdate.write_set.groups.Orderer.values[key].version

\* the nodes of the write_set that have an entry in the read_set carry
\* version 1
ModifiedNodesVersionOne ==
    /\ EmittedUpdate.write_set.groups.Application.version = 1
    /\ EmittedUpdate.write_set.values.Capabilities.present
        => /\ EmittedUpdate.read_set.values.Capabilities.present
           /\ EmittedUpdate.write_set.values.Capabilities.version = 1
    /\ \A key \in {"Capabilities", "BatchSize", "BatchTimeout",
                   "ConsensusType"} :
            OrdererValue(key)
            => ReadOrdererValue(key) /\ OrdererValueVersion(key) = 1
    /\ EmittedUpdate.write_set.values.OrdererAddresses.present
        => /\ EmittedUpdate.read_set.values.OrdererAddresses.present
           /\ EmittedUpdate.write_set.values.OrdererAddresses.version = 1

\* C24 as stated: every new or modified node of the write_set carries
\* version 1, Application/Capabilities and Application/ACLs included
C24_AllVersionsOne ==
    Built
    => /\ ModifiedNodesVersionOne
       /\ ApplicationValueVersion("Capabilities") = 1
       /\ EmittedUpdate.write_set.groups.Application.values.ACLs.present
            => ApplicationValueVersion("ACLs") = 1

\* C24: every node of the write_set that has an entry in the read_set (the
\* Application group, channel Capabilities, the Orderer values,
\* OrdererAddresses) carries version 1, one higher than the implicit version
\* 0 of that entry; the two values with no entry in the read_set,
\* Application/Capabilities and Application/ACLs, carry version 0
C24_VersionsAgainstReadSet ==
    Built
    => /\ ModifiedNodesVersionOne
       /\ "values" \notin DOMAIN EmittedUpdate.read_set.groups.Application
       /\ ApplicationValueVersion("Capabilities") = 0
       /\ EmittedUpdate.write_set.groups.Application.values.ACLs.present
            => ApplicationValueVersion("ACLs") = 0

C24_Witness ==
    /\ Built
    /\ EmittedUpdate.write_set.groups.Application.values.ACLs.present
    /\ ApplicationValueVersion("ACLs") = 0
    /\ OrdererValue("ConsensusType")
    /\ OrdererValueVersion("ConsensusType") = 1
    /\ EmittedUpdate.write_set.values.Capabilities.present
    /\ EmittedUpdate.write_set.values.Capabilities.version = 1

\* C25: every invocation that has ended emitted exactly one result, and an
\* invocation whose operation ended by raising emitted a failure and no
\* success
C25_ExactlyOneResult ==
    inv.pc \in {"done", "rejected"}
    => /\ Len(inv.results) = 1
       /\ FailedRun(inv) => ~Exited(inv)

\* C26: when configtxlator compute_update fails with an error other than 'no
\* differences detected', the invocation ends in failure with no success
\* result, and the file at path is exactly what it was before
C26_ToolErrorLeavesFile ==
    (Done("compute_update") /\ inv.fault = "tool")
    => /\ FailedRun(inv)
       /\ ~Exited(inv)
       /\ inv.untouched
       /\ ~inv.wrote

C26_Witness ==
    /\ Done("compute_update")
    /\ inv.fault = "tool"
    /\ "configtxlator" \in inv.calls
    /\ file.exists
    /\ inv.untouched
    /\ inv.results = <<Fail>>

\* how often the last invocation did the thing named
Count(name) ==
    Cardinality({i \in DOMAIN inv.events : inv.events[i] = name})

\* the call fetch and apply_update make on their connection
ConnectionCall == IF inv.op = "fetch" THEN "fetch" ELSE "update"

\* C27: fetch and apply_update open at most one connection to the ordering
\* service, and exactly one when they get as far as connecting; exactly one
\* call (fetch, respectively update) is made on it and it is closed right
\* after that call, whether the call failed or not; fetch compares and writes
\* the file at path only after the connection is closed
C27_OneConnectionClosed ==
    (inv.pc = "done" /\ inv.op \in {"fetch", "apply_update"})
    => /\ Count("connect") <= 1
       /\ inv.fault \notin {"console", "identity", "tempfile", "connect"}
            => Count("connect") = 1
       /\ Count("connect") = 1
            => /\ Len(inv.events) >= 3
               /\ SubSeq(inv.events, 1, 3)
                    = <<"connect", ConnectionCall, "close">>
       /\ Count(ConnectionCall) = Count("connect")
       /\ Count("close") = Count("connect")
       /\ \A i \in DOMAIN inv.events :
            inv.events[i] \in {"compare", "write"}
            => \E j \in 1..(i - 1) : inv.events[j] = "close"

C27_Witness ==
    /\ Done("fetch")
    /\ inv.fault = "none"
    /\ inv.events = <<"connect", "fetch", "close", "compare", "write">>
    /\ inv.wrote

\* C28: an invocation in check mode leaves the file at path as it is, does
\* not run the signer and submits no update to the ordering service
C28_CheckModeChangesNothing ==
    (inv.pc = "done" /\ inv.params.check_mode)
    => /\ inv.untouched
       /\ ~inv.wrote
       /\ inv.signer = <<>>
       /\ Count("update") = 0

\* C29: sign_update_organizations, however it ends, has removed none of the
\* MSP directories under organizations_dir that it passed to the signer; all
\* it removed are the temporary Fabric config directories it created
C29_OrganizationsDirKept ==
    Done("sign_update_organizations")
    => /\ \A i \in DOMAIN inv.params.organizations :
            OrgMspPath(i) \notin inv.removed
       /\ inv.removed \subseteq inv.created
       /\ inv.removed
            \subseteq {Temp("fabric_cfg_path", i) :
                            i \in DOMAIN inv.params.organizations}
       /\ inv.removed = inv.created \ inv.temps

C29_Witness ==
    /\ Done("sign_update_organizations")
    /\ Len(inv.signer) = 2
    /\ inv.removed = {Temp("fabric_cfg_path", 1), Temp("fabric_cfg_path", 2)}
    /\ OrgMspPath(1) \notin inv.removed
    /\ Exited(inv)

====
